---- MODULE Spec2Model ----
(***************************************************************************)
(* The Redis-backed background job processor of the data catalog           *)
(* (backend/app/services/job_processor.py) as a state machine.             *)
(*                                                                         *)
(* Every "await" on the Redis client is a point where the asyncio event    *)
(* loop may run another task, so every store call is one atomic step and   *)
(* the steps of submit_job, cancel_job, the dispatcher (process_jobs /     *)
(* _process_single_job), the running handler and cleanup_old_jobs          *)
(* interleave freely.  A store call may also raise (connection error);     *)
(* a raising call has no effect on the store.                              *)
(***************************************************************************)
EXTENDS Integers, FiniteSets, Sequences, TLC

\* ---------------------------------------------------------------- bounds
MaxJobs == 2        \* submit_job calls (one fresh uuid4 each)
MaxEvents == 2      \* cancel_job calls, cleanup runs and raising store calls
MaxRows == 3        \* rows of the column _analyze_column is given

JobIds == 1 .. MaxJobs
NoJob == MaxJobs + 1   \* an id no submit_job call returns

\* ------------------------------------------------------------- JobStatus
PENDING == "pending"
RUNNING == "running"
COMPLETED == "completed"
FAILED == "failed"
CANCELLED == "cancelled"
JobStatus == {PENDING, RUNNING, COMPLETED, FAILED, CANCELLED}
Terminal == {COMPLETED, FAILED, CANCELLED}

\* A hash field that is not in the hash; str(None) is the text "None".
Missing == "<missing>"
None == "None"
Stamp == "<isoformat>"

\* The fields of the hash job:<id>.  "core" stands for the fields only
\* submit_job writes: id, type, data, priority, created_at.
Fields ==
  {"core", "status", "started_at", "completed_at", "result", "error",
   "traceback", "progress"}

\* The hash of a key that does not exist.
NoRecord == [f \in Fields |-> Missing]

\* Job types: one with a registered handler, one without.
handlers == {"process_dataset", "process_dataset_url"}
JobTypes == {"process_dataset", "unregistered"}
\* The job types register_handler is called for, the callables it is given,
\* and what self.handlers.get returns for a type that has none.
Types == JobTypes \cup handlers
Callables == {"process_dataset_handler", "other_handler"}
NotFound == "not found"
Priorities == {1, 5}

\* What a handler may return: a JSON value, a value that needs the custom
\* serializer (numpy scalar, datetime), a value json.dumps cannot encode.
HandlerResults == {"json", "numpy", "unserializable"}
\* What a handler may raise: an exception with a message, or one without
\* (Exception(), asyncio.TimeoutError()).
HandlerErrors == {"Exception(message)", "Exception()"}
\* The exceptions _process_single_job meets outside the handler.
StoreError == "ConnectionError(message)"
NoHandler == "ValueError(message)"
NotSerializable == "TypeError(message)"
KeyError == "KeyError(message)"

\* str(e): the message of the exception, empty when it has none.
str(e) == IF e = "Exception()" THEN "" ELSE "message"
\* The progress values a handler reports through update_job_progress.
HandlerProgress == {"10"}

\* The (schema_name, table_name) pairs of job payloads; the first is the
\* default of the routes and the pair load_nyc_taxi_data passes.
DefaultPair == <<"nyc_taxi", "yellow_taxi_trips">>
Pairs == {DefaultPair, <<"sales", "orders">>}
\* What _read_dataset finds at file_path: no file, a suffix that is neither
\* .csv nor .parquet / .pq, content pandas cannot parse, a dataset.
Files == {"missing", "unsupported", "unparsable", "dataset"}
\* The column names of a dataset.
ColumnSets == {{"a", "b"}, {"b", "c"}}
\* The return values of process_dataset: the success mapping holds the
\* numpy.int64 size_bytes and the datetime last_analyzed, which json.dumps
\* encodes through _json_serializer; the error mapping is plain JSON.
SuccessResult == "numpy"
ErrorResult == "json"

VARIABLES
  store,      \* job id -> the hash job:<id>
  job_queue,  \* the sorted set job_queue: a set of <<member, score>>
  sub,        \* job id -> the submit_job call that made it
  can,        \* the cancel_job call in progress
  dis,        \* the dispatcher: process_jobs and _process_single_job
  swp,        \* the cleanup task: cleanup_old_jobs
  events,     \* cancel_job calls, cleanup runs and raised store calls so far
  invoked,    \* job id -> number of times its handler was invoked
  cancelled,  \* job id -> status read by a cancel_job that returned True
  peeked,     \* the members of job_queue at the dispatcher's last zrevrange
  table_metadata,   \* the committed rows of catalog.table_metadata
  column_metadata,  \* the committed rows of catalog.column_metadata
  hnd,        \* the built-in handler the dispatcher awaits
  temp_files, \* job id -> what became of its temporary dataset file
  profile,    \* the column _analyze_column is called for, and its return
  registry,   \* self.handlers: job type -> the handler registered for it
  profiled    \* job id -> what its process_dataset call committed

\* The relational store and the handlers that write it.
catalog ==
  <<table_metadata, column_metadata, hnd, temp_files, profile, registry,
    profiled>>

vars ==
  <<store, job_queue, sub, can, dis, swp, events, invoked, cancelled,
    peeked, table_metadata, column_metadata, hnd, temp_files, profile,
    registry, profiled>>

\* ------------------------------------------------------------ the store
Exists(j) == \E f \in Fields : store[j][f] # Missing

\* hmset / hset with a mapping: sets the given fields, creates the hash
\* when the key does not exist, leaves the other fields alone.
hmset(j, upd) ==
  [store EXCEPT ![j] =
     [f \in Fields |-> IF f \in DOMAIN upd THEN upd[f] ELSE store[j][f]]]

\* Mutant of delete: the call removes nothing.
delete_nothing(j) == store

\* delete(key)
delete(j) == [store EXCEPT ![j] = NoRecord]

\* zadd, zrem and the members of the sorted set
Members == {e[1] : e \in job_queue}
zadd(j, p) == {e \in job_queue : e[1] # j} \cup {<<j, p>>}
zrem(j) == {e \in job_queue : e[1] # j}

\* Mutant of zrevrange_top: zrange(job_queue, 0, 0), the lowest score.
zrange_top ==
  {e[1] : e \in {x \in job_queue : \A y \in job_queue : x[2] <= y[2]}}

\* zrevrange(job_queue, 0, 0): the members of the highest score.  Redis
\* breaks a tie by the member text, a random uuid4: any of them.
zrevrange_top ==
  {e[1] : e \in {x \in job_queue : \A y \in job_queue : y[2] <= x[2]}}

\* json.dumps(result, default=self._json_serializer)
json_serializer(v) ==
  CASE v = "json" -> "json:value"
    [] v = "numpy" -> "json:converted"
    [] OTHER -> "TypeError"

\* -------------------------------------------------------------- initial
NotSubmitted == [pc |-> "none", type |-> Missing, priority |-> 0]
\* can.job and can.ret of an idle cancel_job: the last call and its outcome.
CancelIdle == [pc |-> "idle", job |-> NoJob, seen |-> Missing, ret |-> "none"]
Top == [pc |-> "peek", job |-> NoJob, err |-> Missing, res |-> Missing]
SweepIdle ==
  [pc |-> "sleep", keys |-> {}, job |-> NoJob, fresh |-> {}, due |-> {}]

\* No handler is awaited.  failure: the exception met by the last handler.
HandlerIdle ==
  [pc |-> "idle", type |-> Missing, payload |-> DefaultPair,
   pair |-> DefaultPair, file |-> Missing, cols |-> {}, found |-> {},
   tables |-> {}, columns |-> {}, failure |-> "none"]
NoProfile == [pair |-> <<>>, cols |-> {}]
\* _analyze_column is not called.
NoColumn ==
  [pc |-> "none", dtype |-> "object", series |-> <<>>, mixed |-> FALSE,
   column |-> Missing]

\* self.handlers after the two register_handler calls made when
\* data_processing.py is imported.
Registered ==
  [t \in Types |->
     CASE t = "process_dataset" -> "process_dataset_handler"
       [] t = "process_dataset_url" -> "process_dataset_url_handler"
       [] OTHER -> NotFound]

\* No job, no row, no process under way.
NoJobs ==
  /\ store = [j \in JobIds |-> NoRecord]
  /\ job_queue = {}
  /\ sub = [j \in JobIds |-> NotSubmitted]
  /\ can = CancelIdle
  /\ dis = Top
  /\ swp = SweepIdle
  /\ events = 0
  /\ invoked = [j \in JobIds |-> 0]
  /\ cancelled = [j \in JobIds |-> "no"]
  /\ peeked = {}
  /\ table_metadata = {}
  /\ column_metadata = {}
  /\ hnd = HandlerIdle
  /\ temp_files = [j \in JobIds |-> "initial"]
  /\ profiled = [j \in JobIds |-> NoProfile]
  /\ registry = Registered

Init == NoJobs /\ profile = NoColumn

\* A cancel_job call, a cleanup run or a raising store call may happen
\* while the budget lasts.
Event == events < MaxEvents /\ events' = events + 1

\* The store call of this step raises / does not raise.
Raises == Event
Works == events' = events

\* A write to job:<j> stamps completed_at after the running sweep computed
\* its cutoff: the sweep cannot find that stamp older than the cutoff.
Restamped(j) ==
  IF swp.pc \in {"scan", "delete"} THEN [swp EXCEPT !.fresh = @ \cup {j}] ELSE swp

\* ------------------------------------------------------------ submit_job
\* Mutant of FreshId: the id of an earlier job that has completed is handed
\* out again.
ReusedId(j) ==
  \/ sub[j].pc = "returned" /\ store[j].status = COMPLETED
  \/ /\ sub[j].pc = "none"
     /\ \A i \in JobIds : i < j => sub[i].pc # "none"

\* job_id = str(uuid.uuid4()): a fresh id; ids are handed out in order.
FreshId(j) ==
  /\ sub[j].pc = "none"
  /\ \A i \in JobIds : i < j => sub[i].pc # "none"

\* hset(job:<id>, mapping=job): every value is str(v), so None is "None".
NewJob ==
  [core |-> "set", status |-> PENDING, started_at |-> None,
   completed_at |-> None, result |-> None, error |-> None, progress |-> "0"]

submit_job_hset(j, t, p) ==
  /\ FreshId(j)
  /\ \/ /\ Works
        /\ store' = hmset(j, NewJob)
        /\ sub' = [sub EXCEPT ![j] = [pc |-> "zadd", type |-> t, priority |-> p]]
     \/ /\ Raises
        /\ sub' = [sub EXCEPT ![j].pc = "raised"]
        /\ UNCHANGED store
  /\ UNCHANGED <<job_queue, can, dis, swp, invoked, cancelled, peeked>>
  /\ UNCHANGED catalog

\* zadd("job_queue", {job_id: priority}); return job_id
submit_job_zadd(j) ==
  /\ sub[j].pc = "zadd"
  /\ \/ /\ Works
        /\ job_queue' = zadd(j, sub[j].priority)
        /\ sub' = [sub EXCEPT ![j].pc = "returned"]
     \/ /\ Raises
        /\ sub' = [sub EXCEPT ![j].pc = "raised"]
        /\ UNCHANGED job_queue
  /\ UNCHANGED <<store, can, dis, swp, invoked, cancelled, peeked>>
  /\ UNCHANGED catalog

submit_job == 
  \/ \E j \in JobIds, t \in JobTypes, p \in Priorities : submit_job_hset(j, t, p)
  \/ \E j \in JobIds : submit_job_zadd(j)

\* ------------------------------------------------------------ cancel_job
\* The ids a caller can pass: one that submit_job returned, or any other
\* text, which names no record.
Known(j) == sub[j].pc \in {"returned", "none"}

CancelReturn(j, r) == [CancelIdle EXCEPT !.job = j, !.ret = r]

\* Mutant of Cancellable: every job not yet cancelled can be cancelled.
CancellableUnlessCancelled(s) == s # CANCELLED

\* if job["status"] in [PENDING, RUNNING]
Cancellable(s) == s \in {PENDING, RUNNING}

\* job = await self.get_job_status(job_id), and the tests on job["status"]
cancel_job_read(j) ==
  /\ can.pc = "idle"
  /\ Known(j)
  /\ Event
  /\ \/ /\ can' =
             IF ~Exists(j) THEN CancelReturn(j, "False")
             ELSE IF store[j].status = Missing THEN CancelReturn(j, KeyError)
             ELSE IF Cancellable(store[j].status)
               THEN [pc |-> "hmset", job |-> j, seen |-> store[j].status,
                     ret |-> "none"]
             ELSE CancelReturn(j, "False")
     \/ can' = CancelReturn(j, StoreError)
  /\ UNCHANGED <<store, job_queue, sub, dis, swp, invoked, cancelled, peeked>>
  /\ UNCHANGED catalog

\* hmset(job:<id>, {status: cancelled, completed_at: now}); a job read as
\* RUNNING is done here: return True
cancel_job_hmset ==
  /\ can.pc = "hmset"
  /\ \/ /\ Works
        /\ store' =
             hmset(can.job, [status |-> CANCELLED, completed_at |-> Stamp])
        /\ swp' = Restamped(can.job)
        /\ IF can.seen = PENDING
             THEN /\ can' = [can EXCEPT !.pc = "zrem"]
                  /\ UNCHANGED cancelled
             ELSE /\ can' = CancelReturn(can.job, "True")
                  /\ cancelled' = [cancelled EXCEPT ![can.job] = RUNNING]
     \/ /\ Raises
        /\ can' = CancelReturn(can.job, StoreError)
        /\ UNCHANGED <<store, swp, cancelled>>
  /\ UNCHANGED <<job_queue, sub, dis, invoked, peeked>>
  /\ UNCHANGED catalog

\* Mutant of cancel_job_zrem: returns True and leaves the id in the queue.
cancel_job_without_zrem ==
  /\ can.pc = "zrem"
  /\ can' = CancelReturn(can.job, "True")
  /\ cancelled' = [cancelled EXCEPT ![can.job] = PENDING]
  /\ UNCHANGED <<store, job_queue, sub, dis, swp, events, invoked, peeked>>
  /\ UNCHANGED catalog

\* if job["status"] == pending: zrem("job_queue", job_id); return True
cancel_job_zrem ==
  /\ can.pc = "zrem"
  /\ \/ /\ Works
        /\ job_queue' = zrem(can.job)
        /\ can' = CancelReturn(can.job, "True")
        /\ cancelled' = [cancelled EXCEPT ![can.job] = PENDING]
     \/ /\ Raises
        /\ can' = CancelReturn(can.job, StoreError)
        /\ UNCHANGED <<job_queue, cancelled>>
  /\ UNCHANGED <<store, sub, dis, swp, invoked, peeked>>
  /\ UNCHANGED catalog

cancel_job ==
  \/ \E j \in JobIds : cancel_job_read(j)
  \/ cancel_job_hmset
  \/ cancel_job_zrem

\* ---------------------------------------------------------- process_jobs
\* An exception that reaches the loop of process_jobs: log, sleep(5).
Backoff == [Top EXCEPT !.pc = "backoff"]
\* An exception inside _process_single_job: its handler writes FAILED.
Except(j, e) == [pc |-> "failed", job |-> j, err |-> e, res |-> dis.res]

\* jobs = zrevrange("job_queue", 0, 0); if not jobs: sleep(1); continue
process_jobs_peek ==
  /\ dis.pc = "peek"
  /\ \/ /\ Works
        /\ job_queue = {}
        /\ dis' = [Top EXCEPT !.pc = "sleep"]
        /\ peeked' = {}
     \/ /\ Works
        /\ \E j \in zrevrange_top : dis' = [Top EXCEPT !.pc = "zrem", !.job = j]
        /\ peeked' = Members
     \/ /\ Raises
        /\ dis' = Backoff
        /\ peeked' = {}
  /\ UNCHANGED <<store, job_queue, sub, can, swp, invoked, cancelled>>
  /\ UNCHANGED catalog

\* Mutant of process_jobs_wake: an exception that reaches the loop ends it.
process_jobs_wake_unless_failed ==
  /\ dis.pc = "sleep"
  /\ dis' = Top
  /\ UNCHANGED <<store, job_queue, sub, can, swp, events, invoked,
                 cancelled, peeked>>
  /\ UNCHANGED catalog

\* asyncio.sleep(1) and asyncio.sleep(5) end: back to the top of the loop
process_jobs_wake ==
  /\ dis.pc \in {"sleep", "backoff"}
  /\ dis' = Top
  /\ UNCHANGED <<store, job_queue, sub, can, swp, events, invoked,
                 cancelled, peeked>>
  /\ UNCHANGED catalog

\* zrem("job_queue", job_id)
process_jobs_zrem ==
  /\ dis.pc = "zrem"
  /\ \/ /\ Works
        /\ job_queue' = zrem(dis.job)
        /\ dis' = [dis EXCEPT !.pc = "reread"]
        /\ UNCHANGED peeked
     \/ /\ Raises
        /\ dis' = Backoff
        /\ peeked' = {}
        /\ UNCHANGED job_queue
  /\ UNCHANGED <<store, sub, can, swp, invoked, cancelled>>
  /\ UNCHANGED catalog

\* ---------------------------------------------------- _process_single_job
\* Mutant of NotPending: only a finished job is skipped.
NotPendingIfFinished(s) == s \in {COMPLETED, FAILED}

\* if job["status"] != JobStatus.PENDING.value
NotPending(s) == s # PENDING

\* job = await self.get_job_status(job_id); return unless it is pending
process_single_job_reread ==
  /\ dis.pc = "reread"
  /\ \/ /\ Works
        /\ dis' =
             IF ~Exists(dis.job) THEN Top
             ELSE IF store[dis.job].status = Missing
               THEN Except(dis.job, KeyError)
             ELSE IF NotPending(store[dis.job].status) THEN Top
             ELSE [dis EXCEPT !.pc = "running"]
        /\ peeked' = IF dis'.pc = "peek" THEN {} ELSE peeked
     \/ /\ Raises
        /\ dis' = Except(dis.job, StoreError)
        /\ UNCHANGED peeked
  /\ UNCHANGED <<store, job_queue, sub, can, swp, invoked, cancelled>>
  /\ UNCHANGED catalog

\* Mutant of register_handler: the registry is replaced by one that holds
\* the new handler alone.
register_handler_alone(t, h) ==
  /\ registry' = [u \in Types |-> IF u = t THEN h ELSE NotFound]
  /\ UNCHANGED <<store, job_queue, sub, can, dis, swp, events, invoked,
                 cancelled, peeked, table_metadata, column_metadata, hnd,
                 temp_files, profile, profiled>>

\* register_handler(job_type, handler): self.handlers[job_type] = handler
register_handler(t, h) ==
  /\ registry' = [registry EXCEPT ![t] = h]
  /\ UNCHANGED <<store, job_queue, sub, can, dis, swp, events, invoked,
                 cancelled, peeked, table_metadata, column_metadata, hnd,
                 temp_files, profile, profiled>>

\* self.handlers.get(job["type"]): the handler, or None
handlers_get(t) == registry[t]

\* Mutant of Running: the write stamps started_at and forgets the status.
RunningUnmarked == [started_at |-> Stamp]

\* The fields of the RUNNING write.
Running == [status |-> RUNNING, started_at |-> Stamp]

\* hmset(job:<id>, {status: running, started_at: now}); then
\* handler = self.handlers.get(job["type"]), ValueError when there is none,
\* else the handler is invoked.
process_single_job_running ==
  /\ dis.pc = "running"
  /\ \/ /\ Works
        /\ store' = hmset(dis.job, Running)
        /\ IF handlers_get(sub[dis.job].type) # NotFound
             THEN /\ dis' = [dis EXCEPT !.pc = "handler"]
                  /\ invoked' = [invoked EXCEPT ![dis.job] = @ + 1]
             ELSE /\ dis' = Except(dis.job, NoHandler)
                  /\ UNCHANGED invoked
     \/ /\ Raises
        /\ dis' = Except(dis.job, StoreError)
        /\ UNCHANGED <<store, invoked>>
  /\ UNCHANGED <<job_queue, sub, can, swp, cancelled, peeked>>
  /\ UNCHANGED catalog

\* update_job_progress, called by the running handler with a new value:
\* hmset(job:<id>, {progress: str(progress), message: message}); the
\* built-in handlers let its exception through.
update_job_progress(p) ==
  /\ dis.pc = "handler"
  /\ store[dis.job].progress # p
  /\ \/ /\ Works
        /\ store' = hmset(dis.job, [progress |-> p])
        /\ UNCHANGED dis
     \/ /\ Raises
        /\ dis' = Except(dis.job, StoreError)
        /\ UNCHANGED store
  /\ UNCHANGED <<job_queue, sub, can, swp, invoked, cancelled, peeked>>
  /\ UNCHANGED catalog

\* result = await handler(job_id, job["data"]): the handler returns v
handler_returns(v) ==
  /\ dis.pc = "handler"
  /\ dis' = [dis EXCEPT !.pc = "completed", !.res = v]
  /\ UNCHANGED <<store, job_queue, sub, can, swp, events, invoked,
                 cancelled, peeked>>
  /\ UNCHANGED catalog

\* ... or raises the exception e
handler_raises(e) ==
  /\ dis.pc = "handler"
  /\ dis' = Except(dis.job, e)
  /\ UNCHANGED <<store, job_queue, sub, can, swp, events, invoked,
                 cancelled, peeked>>
  /\ UNCHANGED catalog

\* Mutant of Completed: the write forgets the progress.
CompletedWithoutProgress(v) ==
  [status |-> COMPLETED, completed_at |-> Stamp, result |-> json_serializer(v)]

\* Mutant of Completed: the write leaves a CANCELLED status alone.
CompletedUnlessCancelled(v) ==
  [status |-> IF store[dis.job].status = CANCELLED THEN CANCELLED
              ELSE COMPLETED,
   completed_at |-> Stamp, result |-> json_serializer(v), progress |-> "100"]

\* The fields of the COMPLETED write.
Completed(v) ==
  [status |-> COMPLETED, completed_at |-> Stamp,
   result |-> json_serializer(v), progress |-> "100"]

\* hmset(job:<id>, {status: completed, completed_at, result, progress});
\* json.dumps raises TypeError before the call for a value it cannot encode.
process_single_job_completed ==
  /\ dis.pc = "completed"
  /\ \/ /\ Works
        /\ json_serializer(dis.res) # "TypeError"
        /\ store' = hmset(dis.job, Completed(dis.res))
        /\ swp' = Restamped(dis.job)
        /\ dis' = Top
        /\ peeked' = {}
     \/ /\ Works
        /\ json_serializer(dis.res) = "TypeError"
        /\ dis' = Except(dis.job, NotSerializable)
        /\ UNCHANGED <<store, swp, peeked>>
     \/ /\ Raises
        /\ json_serializer(dis.res) # "TypeError"
        /\ dis' = Except(dis.job, StoreError)
        /\ UNCHANGED <<store, swp, peeked>>
  /\ UNCHANGED <<job_queue, sub, can, invoked, cancelled>>
  /\ UNCHANGED catalog

\* Mutant of Failed: the write forgets the diagnostic trace.
FailedWithoutTrace(e) ==
  [status |-> FAILED, completed_at |-> Stamp, error |-> str(e)]

\* The fields of the FAILED write.
Failed(e) ==
  [status |-> FAILED, completed_at |-> Stamp, error |-> str(e),
   traceback |-> "trace"]

\* except Exception as e: hmset(job:<id>, {status: failed, completed_at,
\* error: str(e), traceback}); when this call raises, the exception leaves
\* _process_single_job and reaches the loop of process_jobs.
process_single_job_failed ==
  /\ dis.pc = "failed"
  /\ \/ /\ Works
        /\ store' = hmset(dis.job, Failed(dis.err))
        /\ swp' = Restamped(dis.job)
        /\ dis' = Top
     \/ /\ Raises
        /\ dis' = Backoff
        /\ UNCHANGED <<store, swp>>
  /\ peeked' = {}
  /\ UNCHANGED <<job_queue, sub, can, invoked, cancelled>>
  /\ UNCHANGED catalog

process_jobs ==
  \/ process_jobs_peek
  \/ process_jobs_wake
  \/ process_jobs_zrem
  \/ process_single_job_reread
  \/ process_single_job_running
  \/ \E p \in HandlerProgress : update_job_progress(p)
  \/ \E v \in HandlerResults : handler_returns(v)
  \/ \E e \in HandlerErrors : handler_raises(e)
  \/ process_single_job_completed
  \/ process_single_job_failed

\* ------------------------------------------------------- cleanup_old_jobs
\* The cleanup task of main.py awaits cleanup_old_jobs without a try: an
\* exception ends the task.
SweepDead == [SweepIdle EXCEPT !.pc = "dead"]

\* The records that are terminal and carry a completed_at when the cutoff is
\* computed: each of these stamps may be older than the cutoff or not.
Stamped ==
  {j \in JobIds : store[j].status \in Terminal /\ store[j].completed_at = Stamp}

\* cutoff_time = utcnow() - max_age; job_keys = keys("job:*"); with no key
\* the loop body never runs and the call returns.  due: the records that
\* are terminal with a completed_at older than the cutoff at this point.
cleanup_old_jobs_keys ==
  /\ swp.pc = "sleep"
  /\ Event
  /\ \/ \E old \in SUBSET Stamped :
          swp' = IF \A j \in JobIds : ~Exists(j) THEN SweepIdle
                 ELSE [pc |-> "scan", keys |-> {j \in JobIds : Exists(j)},
                       job |-> NoJob, fresh |-> {}, due |-> old]
     \/ swp' = SweepDead
  /\ UNCHANGED <<store, job_queue, sub, can, dis, invoked, cancelled,
                 peeked>>
  /\ UNCHANGED catalog

\* Mutant of Eligible: the test on the status is dropped.
EligibleAnyStatus(j) ==
  /\ store[j].completed_at = Stamp
  /\ j \notin swp.fresh
  /\ j \in swp.due

\* completed_time < cutoff_time for the stamp read: a stamp written after
\* the cutoff was computed is not older than it, and every write of a
\* terminal status stamps completed_at, so the stamp read is older only if
\* it is the one the record carried, terminal and due, at the start.
Eligible(j) ==
  /\ store[j].status \in {COMPLETED, FAILED, CANCELLED}
  /\ store[j].completed_at = Stamp
  /\ j \notin swp.fresh
  /\ j \in swp.due

\* job_data = hgetall(job_key) for the next key, and the tests on it
cleanup_old_jobs_hgetall(j) ==
  /\ swp.pc = "scan"
  /\ j \in swp.keys
  /\ \/ /\ Works
        /\ swp' = IF Eligible(j)
                    THEN [swp EXCEPT !.pc = "delete", !.job = j,
                                     !.keys = @ \ {j}]
                  ELSE IF swp.keys = {j}
                    THEN SweepIdle
                  ELSE [swp EXCEPT !.keys = @ \ {j}]
     \/ /\ Raises
        /\ swp' = SweepDead
  /\ UNCHANGED <<store, job_queue, sub, can, dis, invoked, cancelled,
                 peeked>>
  /\ UNCHANGED catalog

\* delete(job_key)
cleanup_old_jobs_delete ==
  /\ swp.pc = "delete"
  /\ \/ /\ Works
        /\ store' = delete(swp.job)
        /\ swp' = IF swp.keys = {}
                    THEN SweepIdle
                  ELSE [swp EXCEPT !.pc = "scan", !.job = NoJob]
     \/ /\ Raises
        /\ swp' = SweepDead
        /\ UNCHANGED store
  /\ UNCHANGED <<job_queue, sub, can, dis, invoked, cancelled, peeked>>
  /\ UNCHANGED catalog

cleanup_old_jobs ==
  \/ \E j \in JobIds : cleanup_old_jobs_hgetall(j)
  \/ cleanup_old_jobs_keys
  \/ cleanup_old_jobs_delete

\* ------------------------------------------------------- the profiling
\* The dtypes pandas gives a column read from a csv or parquet file.
Dtypes == {"datetime64", "int64", "float64", "bool", "object", "category"}

\* A null cell (NaN, None, NaT) and a cell that holds a list, which pandas
\* cannot hash.
Null == "nan"
Unhashable == "[1, 2]"

\* The cells of a column, as str() renders them.
Texts ==
  {"1", "2", "3", "1.5", "2.0", "2023", "true", "True", "false", "yes",
   "2023-01-01", "2023-01-02", "abc", "def"}

\* The cells a column of each dtype can hold: int64 and bool hold no null.
CellsOf(d) ==
  CASE d = "datetime64" -> {"2023-01-01", "2023-01-02", Null}
    [] d = "int64" -> {"1", "2"}
    [] d = "float64" -> {"1", "1.5", Null}
    [] d = "bool" -> {"True", "False"}
    [] d = "category" -> {"abc", "1", Null}
    [] OTHER -> Texts \cup {Null, Unhashable}

Range(s) == {s[i] : i \in 1..Len(s)}

\* series.dropna() and .head(n)
dropna(s) == SelectSeq(s, LAMBDA v : v # Null)
head(s, n) == SubSeq(s, 1, IF Len(s) < n THEN Len(s) ELSE n)

\* The format pandas finds for a text that parses as a date/time: a number
\* below 1000 is "not likely a datetime", one from 1000 on is a year.
DateFormat(v) ==
  CASE v \in {"2023-01-01", "2023-01-02"} -> "%Y-%m-%d"
    [] v = "2023" -> "%Y"
    [] OTHER -> "none"

\* pd.to_datetime(sample, errors='raise') does not raise: every value
\* parses; pandas from 2.0 on parses all of them with the format of the
\* first, earlier versions ("mixed") each value on its own.
to_datetime(sample, mixed) ==
  /\ \A v \in Range(sample) : DateFormat(v) # "none"
  /\ mixed \/ \A v, w \in Range(sample) : DateFormat(v) = DateFormat(w)

\* str() of the Timestamp a text parses to.
Timestamp(v) ==
  IF v = "2023-01-02" THEN "2023-01-02 00:00:00" ELSE "2023-01-01 00:00:00"

\* The texts pd.to_numeric parses, with their values in tenths.
Numeric ==
  [v \in {"1", "2", "3", "1.5", "2.0", "2023"} |->
     CASE v = "1" -> 10 [] v = "2" -> 20 [] v = "3" -> 30 [] v = "1.5" -> 15
       [] v = "2.0" -> 20 [] OTHER -> 20230]

\* pd.to_numeric(sample, errors='raise') does not raise
to_numeric(sample) == \A v \in Range(sample) : v \in DOMAIN Numeric

\* numeric_sample == numeric_sample.astype(int), for one value
Integral(v) == Numeric[v] % 10 = 0

\* str(v).lower()
lower(v) ==
  CASE v = "True" -> "true" [] v = "False" -> "false" [] OTHER -> v

\* The vocabulary of the boolean test.
BooleanTokens == {"true", "false", "1", "0", "yes", "no", "t", "f"}

\* sample = series.dropna().head(100)
SampleSize == 100

\* Mutant of infer_column_type: the numeric test comes before the
\* datetime test.
infer_column_type_numeric_first(d, s, mixed) ==
  CASE d = "datetime64" -> "datetime"
    [] d = "int64" -> "integer"
    [] d = "float64" -> "float"
    [] d = "bool" -> "boolean"
    [] d = "object" ->
         LET sample == head(dropna(s), SampleSize)
         IN IF to_numeric(sample)
              THEN IF \A v \in Range(sample) : Integral(v)
                     THEN "integer" ELSE "float"
            ELSE IF to_datetime(sample, mixed) THEN "datetime"
            ELSE IF Unhashable \in Range(sample) THEN "TypeError"
            ELSE IF {lower(v) : v \in Range(sample)} \subseteq BooleanTokens
              THEN "boolean"
            ELSE "string"
    [] OTHER -> "string"

\* _infer_column_type(series): the ColumnType, or the TypeError that
\* sample.unique() raises for a value it cannot hash, which no except
\* clause of the function catches.
infer_column_type(d, s, mixed) ==
  CASE d = "datetime64" -> "datetime"
    [] d = "int64" -> "integer"
    [] d = "float64" -> "float"
    [] d = "bool" -> "boolean"
    [] d = "object" ->
         LET sample == head(dropna(s), SampleSize)
         IN IF to_datetime(sample, mixed) THEN "datetime"
            ELSE IF to_numeric(sample)
              THEN IF \A v \in Range(sample) : Integral(v)
                     THEN "integer" ELSE "float"
            ELSE IF Unhashable \in Range(sample) THEN "TypeError"
            ELSE IF {lower(v) : v \in Range(sample)} \subseteq BooleanTokens
              THEN "boolean"
            ELSE "string"
    [] OTHER -> "string"

\* The least and the greatest of a set of numbers, and the sum of a
\* sequence of them.
Least(S) == CHOOSE x \in S : \A y \in S : x <= y
Greatest(S) == CHOOSE x \in S : \A y \in S : y <= x
RECURSIVE Sum(_)
Sum(q) == IF q = <<>> THEN 0 ELSE Head(q) + Sum(Tail(q))

\* pd.to_numeric(series, errors='coerce'), without the NaN it leaves: the
\* values in tenths.
coerce_numeric(s) ==
  LET kept == SelectSeq(s, LAMBDA v : v \in DOMAIN Numeric)
  IN [i \in 1..Len(kept) |-> Numeric[kept[i]]]

\* series.astype(str).str.len(): a null cell is rendered "nan".
str_len(s) == {Len(s[i]) : i \in 1..Len(s)}

\* min_value, max_value and avg_value of _analyze_column for the inferred
\* type: of the numbers (the mean in whole tenths), of the lengths of the
\* texts ("nan" for a series of no row), of the timestamps.
value_statistics(type, s) ==
  LET none == [min_value |-> None, max_value |-> None, avg_value |-> None]
  IN CASE type \in {"integer", "float"} ->
            LET n == coerce_numeric(s)
            IN IF n = <<>> THEN none
               ELSE [min_value |-> ToString(Least(Range(n))),
                     max_value |-> ToString(Greatest(Range(n))),
                     avg_value |-> ToString(Sum(n) \div Len(n))]
       [] type = "string" ->
            IF s = <<>>
              THEN [min_value |-> "nan", max_value |-> "nan",
                    avg_value |-> None]
              ELSE [min_value |-> ToString(Least(str_len(s))),
                    max_value |-> ToString(Greatest(str_len(s))),
                    avg_value |-> None]
       [] type = "datetime" ->
            LET t == {Timestamp(v) : v \in Range(dropna(s))}
            IN IF t = {} THEN none
               ELSE [min_value |-> IF "2023-01-01 00:00:00" \in t
                                     THEN "2023-01-01 00:00:00"
                                     ELSE "2023-01-02 00:00:00",
                     max_value |-> IF "2023-01-02 00:00:00" \in t
                                     THEN "2023-01-02 00:00:00"
                                     ELSE "2023-01-01 00:00:00",
                     avg_value |-> None]
       [] OTHER -> none

\* The mapping _analyze_column returns for a column of type "type".
column_metadata_of(type, s) ==
  LET null_count == Len(s) - Len(dropna(s))
      stats == value_statistics(type, s)
  IN [column_type |-> type,
      is_nullable |-> null_count > 0,
      null_count |-> null_count,
      unique_count |-> Cardinality(Range(dropna(s))),
      min_value |-> stats.min_value,
      max_value |-> stats.max_value,
      avg_value |-> stats.avg_value]

\* _analyze_column(df, column_name): the mapping it returns, or the
\* exception of _infer_column_type.
analyze_column ==
  /\ profile.pc = "read"
  /\ LET type == infer_column_type(profile.dtype, profile.series, profile.mixed)
     IN profile' =
          IF type = "TypeError"
            THEN [profile EXCEPT !.pc = "raised", !.column = type]
            ELSE [profile EXCEPT !.pc = "returned",
                    !.column = column_metadata_of(type, profile.series)]
  /\ UNCHANGED <<store, job_queue, sub, can, dis, swp, events, invoked,
                 cancelled, peeked, table_metadata, column_metadata, hnd,
                 temp_files, registry, profiled>>

\* A column of a dataset is read, under either behaviour of to_datetime.
ProfileInit ==
  /\ NoJobs
  /\ \E d \in Dtypes, n \in 0..MaxRows :
       \E s \in [1..n -> CellsOf(d)], m \in BOOLEAN :
         profile = [pc |-> "read", dtype |-> d, series |-> s, mixed |-> m,
                    column |-> Missing]

ProfileSpec == ProfileInit /\ [][analyze_column]_vars

\* --------------------------------------------------- the built-in handlers
\* The routes that submit jobs for the built-in handlers, with priority 1:
\* submit_job("process_dataset", job_data, priority=1) of upload_dataset and
\* submit_job("process_dataset_url", job_data, priority=1) of
\* process_dataset_from_url.
upload_dataset == \E j \in JobIds : submit_job_hset(j, "process_dataset", 1)

process_dataset_from_url ==
  \E j \in JobIds : submit_job_hset(j, "process_dataset_url", 1)

\* The temporary dataset file of job j exists: upload_dataset saved one
\* before it called submit_job, process_dataset_url_handler saves one at the
\* download, and os.unlink removes it.
TempFile(j) ==
  CASE temp_files[j] = "unlinked" -> FALSE
    [] temp_files[j] = "downloaded" -> TRUE
    [] OTHER -> sub[j].pc # "none" /\ sub[j].type = "process_dataset"

\* try: os.unlink(path) except Exception: pass
unlink == temp_files' = [temp_files EXCEPT ![dis.job] = "unlinked"]

\* What the handler steps leave alone.
HandlerFrame ==
  UNCHANGED <<job_queue, sub, can, swp, invoked, cancelled, peeked, profile,
              registry>>

\* await job_processor.update_job_progress(job_id, p, message) in a handler,
\* which goes on as "then"; both handlers re-raise its exception.
Progress(p, then) ==
  \/ /\ Works
     /\ store' = hmset(dis.job, [progress |-> p])
     /\ hnd' = then
     /\ UNCHANGED dis
  \/ /\ Raises
     /\ dis' = Except(dis.job, StoreError)
     /\ hnd' = [hnd EXCEPT !.pc = "idle"]
     /\ UNCHANGED store

\* process_dataset_handler: file_path and the pair of the payload, as
\* upload_dataset saved them (an allowed suffix), then
\* update_job_progress(job_id, 10, ...)
process_dataset_handler_start ==
  /\ dis.pc = "handler" /\ hnd.pc = "idle"
  /\ sub[dis.job].type = "process_dataset"
  /\ \E f \in Files \ {"unsupported"}, pr \in Pairs :
       \/ /\ Works
          /\ store' = hmset(dis.job, [progress |-> "10"])
          /\ hnd' = [HandlerIdle EXCEPT !.pc = "process",
                       !.type = "process_dataset",
                       !.payload = pr, !.pair = pr, !.file = f]
          /\ IF f = "missing" THEN unlink ELSE UNCHANGED temp_files
          /\ UNCHANGED dis
       \/ /\ Raises
          /\ dis' = Except(dis.job, StoreError)
          /\ hnd' = HandlerIdle
          /\ unlink
          /\ UNCHANGED store
  /\ HandlerFrame
  /\ UNCHANGED <<table_metadata, column_metadata, profiled>>

\* process_dataset_url_handler: url of the payload, then
\* update_job_progress(job_id, 10, ...)
process_dataset_url_handler_start ==
  /\ dis.pc = "handler" /\ hnd.pc = "idle"
  /\ sub[dis.job].type = "process_dataset_url"
  /\ \E pr \in Pairs :
       \/ /\ Works
          /\ store' = hmset(dis.job, [progress |-> "10"])
          /\ hnd' = [HandlerIdle EXCEPT !.pc = "download",
                       !.type = "process_dataset_url", !.payload = pr]
          /\ UNCHANGED <<dis, temp_files>>
       \/ /\ Raises
          /\ dis' = Except(dis.job, StoreError)
          /\ hnd' = HandlerIdle
          /\ UNCHANGED <<store, temp_files>>
  /\ HandlerFrame
  /\ UNCHANGED <<table_metadata, column_metadata, profiled>>

\* async with session.get(url): a status other than 200 or a client error
\* raises, with or without a message; else the body is saved to a temporary
\* file with the suffix of the url.
process_dataset_url_handler_download ==
  /\ dis.pc = "handler" /\ hnd.pc = "download"
  /\ \/ \E e \in HandlerErrors, saved \in BOOLEAN :
          /\ dis' = Except(dis.job, e)
          /\ hnd' = [hnd EXCEPT !.pc = "idle", !.failure = "download"]
          /\ temp_files' =
               IF saved THEN [temp_files EXCEPT ![dis.job] = "downloaded"]
               ELSE temp_files
     \/ \E f \in Files \ {"missing"} :
          /\ hnd' = [hnd EXCEPT !.pc = "progress30", !.file = f]
          /\ temp_files' = [temp_files EXCEPT ![dis.job] = "downloaded"]
          /\ UNCHANGED dis
  /\ HandlerFrame
  /\ UNCHANGED <<store, events, table_metadata, column_metadata, profiled>>

\* update_job_progress(job_id, 30, ...); then load_nyc_taxi_data(path),
\* which is process_dataset(path, "nyc_taxi", "yellow_taxi_trips")
process_dataset_url_handler_progress30 ==
  /\ dis.pc = "handler" /\ hnd.pc = "progress30"
  /\ Progress("30", [hnd EXCEPT !.pc = "process", !.pair = DefaultPair])
  /\ HandlerFrame
  /\ UNCHANGED <<table_metadata, column_metadata, profiled, temp_files>>

\* process_dataset returns: the success mapping, or the error mapping of its
\* except branch for the exception "failure".  process_dataset_handler goes
\* on to update_job_progress(90); process_dataset_url_handler unlinks the
\* file and returns the mapping to the dispatcher.
process_dataset_returns(failure) ==
  IF hnd.type = "process_dataset"
    THEN /\ hnd' = [hnd EXCEPT !.pc = "progress90", !.failure = failure]
         /\ UNCHANGED <<dis, temp_files>>
    ELSE /\ hnd' = [hnd EXCEPT !.pc = "idle", !.failure = failure]
         /\ unlink
         /\ dis' = [dis EXCEPT !.pc = "completed",
                      !.res = IF failure = "none" THEN SuccessResult
                              ELSE ErrorResult]

\* df = await self._read_dataset(file_path); metadata = await
\* self._analyze_dataset(df, schema_name, table_name)
process_dataset_read ==
  /\ dis.pc = "handler" /\ hnd.pc = "process"
  /\ CASE hnd.file = "dataset" ->
            \E c \in ColumnSets :
              /\ hnd' = [hnd EXCEPT !.pc = "select", !.cols = c]
              /\ UNCHANGED <<dis, temp_files>>
       [] hnd.file = "missing" -> process_dataset_returns("FileNotFoundError")
       [] hnd.file = "unsupported" -> process_dataset_returns("ValueError")
       [] OTHER -> process_dataset_returns("ParserError")
  /\ HandlerFrame
  /\ UNCHANGED <<store, events, table_metadata, column_metadata, profiled>>

\* Mutant of rollback_columns: what the session executed stays.
rollback_keeps_executed == hnd.columns

\* The committed rows when the async with block of the session is left by
\* an exception: the transaction is rolled back.
rollback_tables == table_metadata
rollback_columns == column_metadata

\* The step of the session raised: the block is left, process_dataset
\* returns the error mapping.
session_raises ==
  /\ Raises
  /\ table_metadata' = rollback_tables
  /\ column_metadata' = rollback_columns
  /\ process_dataset_returns("SQLAlchemyError")

\* _store_table_metadata: select the rows of the pair in the session's
\* transaction (scalar_one_or_none: MultipleResultsFound for more than one).
store_table_metadata_select ==
  /\ dis.pc = "handler" /\ hnd.pc = "select"
  /\ \/ /\ Works
        /\ LET found == {r \in table_metadata : r.pair = hnd.pair}
           IN IF Cardinality(found) > 1
                THEN process_dataset_returns("MultipleResultsFound")
                ELSE /\ hnd' = [hnd EXCEPT !.pc = "upsert", !.found = found,
                                  !.tables = table_metadata,
                                  !.columns = column_metadata]
                     /\ UNCHANGED <<dis, temp_files>>
     \/ /\ Raises
        /\ process_dataset_returns("SQLAlchemyError")
  /\ HandlerFrame
  /\ UNCHANGED <<store, table_metadata, column_metadata, profiled>>

\* The id of the row _store_table_metadata returns: that of the row found,
\* or the uuid4 of the new row.
table_id ==
  IF hnd.found = {} THEN Cardinality(table_metadata) + 1
  ELSE (CHOOSE r \in hnd.found : TRUE).id

\* Mutant of store_table_metadata: the row found is replaced by a new row
\* of the same id.
store_table_metadata_replaces ==
  {r \in hnd.tables : r \notin hnd.found}
    \cup {[id |-> table_id, pair |-> hnd.pair, counters |-> dis.job,
           made |-> dis.job, updated_at |-> dis.job]}

\* The rows of table_metadata the session holds after _store_table_metadata:
\* the row found with the counters (row_count, size_bytes, last_analyzed) of
\* this run, or a new row, whose table_type, description and created_at
\* ("made") and updated_at are those of the insert.
store_table_metadata ==
  IF hnd.found = {}
    THEN hnd.tables
           \cup {[id |-> table_id, pair |-> hnd.pair, counters |-> dis.job,
                  made |-> dis.job, updated_at |-> dis.job]}
    ELSE {IF r \in hnd.found THEN [r EXCEPT !.counters = dis.job] ELSE r :
            r \in hnd.tables}

\* _store_table_metadata after the select: the row found is updated in
\* memory, which cannot fail; a new row is added and session.flush() sends
\* its INSERT, which may raise.
store_table_metadata_upsert ==
  /\ dis.pc = "handler" /\ hnd.pc = "upsert"
  /\ \/ /\ IF hnd.found = {} THEN Works ELSE UNCHANGED events
        /\ hnd' = [hnd EXCEPT !.pc = "delete", !.tables = store_table_metadata]
        /\ UNCHANGED <<dis, temp_files, table_metadata, column_metadata>>
     \/ /\ hnd.found = {}
        /\ session_raises
  /\ HandlerFrame
  /\ UNCHANGED <<store, profiled>>

\* The autoflush before session.execute: the UPDATE of a row changed in
\* memory also sets updated_at (onupdate=func.now()).
autoflush ==
  {IF r \in table_metadata THEN r ELSE [r EXCEPT !.updated_at = dis.job] :
     r \in hnd.tables}

\* Mutant of store_column_metadata: the rows of the table are not deleted.
store_column_metadata_without_delete ==
  hnd.columns
    \cup {[table_id |-> table_id, column_name |-> n, run |-> dis.job] :
            n \in hnd.cols}

\* The rows of column_metadata the session holds after
\* _store_column_metadata: DELETE ... WHERE table_id = :table_id, then one
\* new row for each column.
store_column_metadata ==
  {c \in hnd.columns : c.table_id # table_id}
    \cup {[table_id |-> table_id, column_name |-> n, run |-> dis.job] :
            n \in hnd.cols}

\* _store_column_metadata: the DELETE is executed in the session's
\* transaction and may raise; the new rows are added in memory.
store_column_metadata_delete ==
  /\ dis.pc = "handler" /\ hnd.pc = "delete"
  /\ \/ /\ Works
        /\ hnd' = [hnd EXCEPT !.pc = "commit", !.tables = autoflush,
                     !.columns = store_column_metadata]
        /\ UNCHANGED <<dis, temp_files, table_metadata, column_metadata>>
     \/ session_raises
  /\ HandlerFrame
  /\ UNCHANGED <<store, profiled>>

\* session.commit(): the rows of the session are committed as a whole, or
\* the call raises and the transaction is rolled back.
process_dataset_commit ==
  /\ dis.pc = "handler" /\ hnd.pc = "commit"
  /\ \/ /\ Works
        /\ table_metadata' = hnd.tables
        /\ column_metadata' = hnd.columns
        /\ profiled' = [profiled EXCEPT ![dis.job] =
                          [pair |-> hnd.pair, cols |-> hnd.cols]]
        /\ process_dataset_returns("none")
     \/ /\ session_raises
        /\ UNCHANGED profiled
  /\ HandlerFrame
  /\ UNCHANGED store

\* process_dataset_handler: update_job_progress(job_id, 90, ...), then the
\* temporary file is unlinked, as it is in the except branch when the
\* update raises
process_dataset_handler_progress90 ==
  /\ dis.pc = "handler" /\ hnd.pc = "progress90"
  /\ Progress("90", [hnd EXCEPT !.pc = "progress100"])
  /\ unlink
  /\ HandlerFrame
  /\ UNCHANGED <<table_metadata, column_metadata, profiled>>

\* process_dataset_handler: update_job_progress(job_id, 100, ...); return
\* result
process_dataset_handler_progress100 ==
  /\ dis.pc = "handler" /\ hnd.pc = "progress100"
  /\ \/ /\ Works
        /\ store' = hmset(dis.job, [progress |-> "100"])
        /\ hnd' = [hnd EXCEPT !.pc = "idle"]
        /\ dis' = [dis EXCEPT !.pc = "completed",
                     !.res = IF hnd.failure = "none" THEN SuccessResult
                             ELSE ErrorResult]
        /\ UNCHANGED temp_files
     \/ /\ Raises
        /\ dis' = Except(dis.job, StoreError)
        /\ hnd' = [hnd EXCEPT !.pc = "idle"]
        /\ unlink
        /\ UNCHANGED store
  /\ HandlerFrame
  /\ UNCHANGED <<table_metadata, column_metadata, profiled>>

\* The dispatcher with the built-in handlers in place of any handler.
process_builtin_jobs ==
  \/ process_jobs_peek
  \/ process_jobs_wake
  \/ process_jobs_zrem
  \/ process_single_job_reread
  \/ process_single_job_running
  \/ process_dataset_handler_start
  \/ process_dataset_url_handler_start
  \/ process_dataset_url_handler_download
  \/ process_dataset_url_handler_progress30
  \/ process_dataset_read
  \/ store_table_metadata_select
  \/ store_table_metadata_upsert
  \/ store_column_metadata_delete
  \/ process_dataset_commit
  \/ process_dataset_handler_progress90
  \/ process_dataset_handler_progress100
  \/ process_single_job_completed
  \/ process_single_job_failed

\* ---------------------------------------------------- get_job_queue_stats
\* keys("job:*"), hget(key, "status") for each key, zcard("job_queue"): the
\* report of a call that no other operation interleaves with.  A status
\* that is not in the hash is counted under no entry.
get_job_queue_stats ==
  [queue_length |-> Cardinality(job_queue),
   status_counts |->
     [s \in JobStatus |-> Cardinality({j \in JobIds : store[j].status = s})],
   total_jobs |-> Cardinality({j \in JobIds : Exists(j)})]

\* ------------------------------------------------------------------ spec
Next == submit_job \/ cancel_job \/ process_jobs \/ cleanup_old_jobs

Spec == Init /\ [][Next]_vars

\* Submissions and the dispatcher alone.  The event loop runs the
\* process_jobs task whenever it is ready: its store calls answer or raise,
\* its sleeps end and its handlers end.
DispatchNext == submit_job \/ process_jobs

FairSpec == Init /\ [][DispatchNext]_vars /\ WF_vars(process_jobs)

\* The routes of data_processing.py, the dispatcher and the built-in
\* handlers with the relational store.
CatalogNext ==
  \/ upload_dataset
  \/ process_dataset_from_url
  \/ \E j \in JobIds : submit_job_zadd(j)
  \/ process_builtin_jobs

CatalogSpec == Init /\ [][CatalogNext]_vars

\* Handlers are registered while jobs are submitted and dispatched.
RegistryNext ==
  \/ \E t \in Types, h \in Callables : register_handler(t, h)
  \/ submit_job
  \/ process_jobs

RegistrySpec == Init /\ [][RegistryNext]_vars

\* ---------------------------------------------------------------- claims
\* A step changes the status of a record that holds one before and after.
StatusChange(j) ==
  /\ store[j].status \in JobStatus
  /\ store'[j].status \in JobStatus
  /\ store'[j].status # store[j].status

Change(j) == <<store[j].status, store'[j].status>>

\* The changes of the documented lifecycle.
Lifecycle ==
  {<<PENDING, RUNNING>>, <<RUNNING, COMPLETED>>, <<RUNNING, FAILED>>,
   <<PENDING, CANCELLED>>}

\* C1 as stated: every change of a stored status is one of PENDING->RUNNING,
\* RUNNING->COMPLETED, RUNNING->FAILED, PENDING->CANCELLED.
C1_LifecycleOnly ==
  [][\A j \in JobIds : StatusChange(j) => Change(j) \in Lifecycle]_vars

\* The changes the code also makes: cancel_job marks a RUNNING job, the
\* dispatcher's writes land on a job cancelled meanwhile, cancel_job's write
\* lands on a job that ended after it was read, and a store error before the
\* RUNNING write sends a PENDING job to FAILED.
Races ==
  {<<RUNNING, CANCELLED>>, <<CANCELLED, RUNNING>>, <<CANCELLED, COMPLETED>>,
   <<CANCELLED, FAILED>>, <<COMPLETED, CANCELLED>>, <<FAILED, CANCELLED>>,
   <<PENDING, FAILED>>}

\* C1 as amended: every change of a stored status is a lifecycle change or
\* one of the seven changes of Races; no status is ever changed to PENDING,
\* none of COMPLETED and FAILED to the other or to RUNNING, and PENDING
\* never directly to COMPLETED.
C1_StatusChanges ==
  [][\A j \in JobIds :
       StatusChange(j) => Change(j) \in Lifecycle \cup Races]_vars

\* C1's case: a job that was COMPLETED (it holds a result) is now CANCELLED.
C1_Witness ==
  \E j \in JobIds :
    /\ store[j].status = CANCELLED
    /\ store[j].result = json_serializer("json")

\* C2 as stated: no write changes a COMPLETED, FAILED or CANCELLED status.
C2_Absorbing ==
  [][\A j \in JobIds :
       (store[j].status \in Terminal /\ store'[j].status \in JobStatus) =>
         store'[j].status = store[j].status]_vars

\* C2 as amended: COMPLETED and FAILED are changed only to CANCELLED, by the
\* write of a cancel_job that read PENDING or RUNNING before the job ended;
\* CANCELLED is changed only by the dispatcher's writes for the job it
\* holds: RUNNING after its re-read, COMPLETED or FAILED when the job ends.
C2_TerminalLeftOnlyByRace ==
  [][\A j \in JobIds :
       (StatusChange(j) /\ store[j].status \in Terminal) =>
         \/ /\ store[j].status \in {COMPLETED, FAILED}
            /\ store'[j].status = CANCELLED
            /\ can.pc = "hmset" /\ can.job = j
            /\ can.seen \in {PENDING, RUNNING}
         \/ /\ store[j].status = CANCELLED
            /\ dis.job = j
            /\ \/ dis.pc = "running" /\ store'[j].status = RUNNING
               \/ dis.pc = "completed" /\ store'[j].status = COMPLETED
               \/ dis.pc = "failed" /\ store'[j].status = FAILED]_vars

\* C2's case: a job cancelled while RUNNING whose handler then raised.
C2_Witness ==
  \E j \in JobIds : cancelled[j] = RUNNING /\ store[j].status = FAILED

\* C3 as stated: when cancel_job read PENDING and returned True, the job's
\* handler is never invoked and the job is never RUNNING, COMPLETED or FAILED.
C3_CancelPendingReliable ==
  \A j \in JobIds :
    cancelled[j] = PENDING =>
      /\ invoked[j] = 0
      /\ store[j].status \notin {RUNNING, COMPLETED, FAILED}

\* C4: once cancel_job has returned True for a job it read as PENDING, the
\* id is not in the queue, and no zrevrange of the dispatcher made after
\* that return selects it.
C4_CancelledStaysDequeued ==
  [][\A j \in JobIds :
       cancelled'[j] = PENDING =>
         /\ j \notin {e[1] : e \in job_queue'}
         /\ (cancelled[j] = PENDING /\ dis.pc = "peek") => dis'.job # j]_vars

\* C4's case: a PENDING job of priority 5 was cancelled, and the dispatcher
\* has since served a job of priority 1.
C4_Witness ==
  \E j, k \in JobIds :
    /\ cancelled[j] = PENDING /\ invoked[j] = 0
    /\ store[j].status = CANCELLED
    /\ sub[j].priority = 5 /\ sub[k].priority = 1
    /\ store[k].status = COMPLETED

\* C5: while the dispatcher holds a job, from its zrevrange to the end of
\* the handler, no job that was in the queue at that zrevrange has a higher
\* priority: of two queued jobs of priorities 5 and 1 the handler of 5 runs
\* first.
C5_HighestPriorityFirst ==
  dis.pc \in {"zrem", "reread", "running", "handler"} =>
    \A j \in peeked : sub[j].priority <= sub[dis.job].priority

\* C5's case: both jobs were queued at the zrevrange, 5 after 1, and the
\* handler of 5 runs while 1 is still PENDING.
C5_Witness ==
  /\ dis.pc = "handler" /\ dis.job = 2 /\ peeked = {1, 2}
  /\ sub[1].priority = 1 /\ sub[2].priority = 5
  /\ store[1].status = PENDING /\ invoked[1] = 0

\* The record of job j right after a step shows a handler failure.
ShowsFailed(j) ==
  /\ store'[j].status = FAILED
  /\ store'[j].error \notin {"", None, Missing}
  /\ store'[j].completed_at = Stamp

\* C6 as stated, at the write that ends the job: when the handler raised,
\* the record shows FAILED, a non-empty error and completed_at once the
\* dispatcher has made its FAILED write.
C6_HandlerRaiseRecorded ==
  [][(/\ dis.pc = "failed" /\ dis.err \in HandlerErrors
      /\ dis'.pc = "peek") => ShowsFailed(dis.job)]_vars

\* The record of job j right after a step shows the handler's return value v.
ShowsCompleted(j, v) ==
  /\ store'[j].status = COMPLETED
  /\ store'[j].progress = "100"
  /\ store'[j].completed_at = Stamp
  /\ store'[j].result = json_serializer(v)

C8_CancelRunningRace ==
  [][/\ (can.pc = "hmset" /\ can.seen = RUNNING /\ can'.pc # "hmset"
         /\ events' = events)
          => /\ store'[can.job].status = CANCELLED
             /\ can'.ret = "True"
             /\ job_queue' = job_queue
             /\ dis' = dis
     /\ (dis.pc = "completed" /\ dis'.pc = "peek"
         /\ store[dis.job].status = CANCELLED)
          => store'[dis.job].status = COMPLETED
     /\ (dis.pc = "failed" /\ dis'.pc = "peek"
         /\ store[dis.job].status = CANCELLED)
          => store'[dis.job].status = FAILED]_vars

\* C8's case: a job cancelled while RUNNING shows COMPLETED.
C8_Witness ==
  \E j \in JobIds :
    cancelled[j] = RUNNING /\ invoked[j] = 1 /\ store[j].status = COMPLETED

\* C9: a cancel_job that finds no record, or a COMPLETED, FAILED or
\* CANCELLED status, returns False at once and changes neither the store
\* nor the queue.
C9_CancelTerminalNoEffect ==
  [][\A j \in JobIds :
       (/\ cancel_job_read(j)
        /\ can'.ret # StoreError
        /\ ~Exists(j) \/ store[j].status \in Terminal)
         => /\ can'.pc = "idle" /\ can'.ret = "False"
            /\ store' = store
            /\ job_queue' = job_queue
            /\ cancelled' = cancelled]_vars

\* C9's case: cancel_job returned False for a COMPLETED job.
C9_Witness ==
  /\ can.pc = "idle" /\ can.ret = "False"
  /\ can.job \in JobIds
  /\ store[can.job].status = COMPLETED

\* C10 as stated: a submit_job that raised leaves no record of the new id.
C10_FailedSubmitLeavesNothing ==
  \A j \in JobIds : sub[j].pc = "raised" => ~Exists(j)

\* C12: the RUNNING write for a job whose type has no registered handler
\* marks it RUNNING with started_at and invokes no handler; the FAILED write
\* that follows records FAILED, completed_at, an error message and a trace,
\* with still no handler invoked, and the dispatcher is back at the top of
\* its loop for the next queued job.
C12_NoHandlerFails ==
  [][/\ (/\ dis.pc = "running" /\ dis' # dis /\ events' = events
          /\ sub[dis.job].type \notin handlers)
           => /\ store'[dis.job].status = RUNNING
              /\ store'[dis.job].started_at = Stamp
              /\ invoked' = invoked
              /\ dis' = Except(dis.job, NoHandler)
     /\ (/\ dis.pc = "failed" /\ dis' # dis /\ events' = events
          /\ dis.err = NoHandler)
           => /\ store'[dis.job].status = FAILED
              /\ store'[dis.job].completed_at = Stamp
              /\ store'[dis.job].error \notin {"", None, Missing}
              /\ store'[dis.job].traceback \notin {"", None, Missing}
              /\ invoked'[dis.job] = 0
              /\ dis' = Top]_vars

\* C12's case: a job of an unregistered type and priority 5 is FAILED with
\* started_at and no handler invoked, and the dispatcher has since completed
\* the job of priority 1 queued behind it.
C12_Witness ==
  \E j, k \in JobIds :
    /\ sub[j].type \notin handlers /\ sub[j].priority = 5
    /\ store[j].status = FAILED /\ store[j].started_at = Stamp
    /\ store[j].traceback = "trace" /\ invoked[j] = 0
    /\ sub[k].priority = 1 /\ store[k].status = COMPLETED /\ invoked[k] = 1

\* C13 as stated: at most one handler invocation is in progress and at most
\* one job record has status RUNNING.
C13_OneRunning ==
  /\ Cardinality({j \in JobIds : dis.pc = "handler" /\ dis.job = j}) <= 1
  /\ Cardinality({j \in JobIds : store[j].status = RUNNING}) <= 1

\* The step is the RUNNING write of the dispatcher for job j.
StartedAtWritten(j) ==
  dis.pc = "running" /\ dis.job = j /\ dis' # dis /\ events' = events

\* The step is the CANCELLED write of cancel_job for job j.
StampedByCancel(j) ==
  can.pc = "hmset" /\ can.job = j /\ can' # can /\ events' = events

\* The step is the COMPLETED or FAILED write of the dispatcher for job j.
StampedByDispatcher(j) ==
  /\ dis.pc \in {"completed", "failed"} /\ dis.job = j
  /\ dis'.pc = "peek" /\ events' = events

CompletedAtWritten(j) == StampedByCancel(j) \/ StampedByDispatcher(j)

HoldsResult(j) == store[j].result \notin {Missing, None}
HoldsError(j) ==
  store[j].error \notin {Missing, None} \/ store[j].traceback # Missing

\* C16 as stated: a record holds a result only if it is COMPLETED and an
\* error or trace only if it is FAILED.
C16_ResultErrorByStatus ==
  \A j \in JobIds :
    /\ HoldsResult(j) => store[j].status = COMPLETED
    /\ HoldsError(j) => store[j].status = FAILED

\* No submit_job, cancel_job, dispatch cycle or cleanup run is in progress.
Quiescent ==
  /\ \A j \in JobIds : sub[j].pc # "zadd"
  /\ can.pc = "idle"
  /\ dis.pc \in {"peek", "sleep", "backoff"}
  /\ swp.pc \in {"sleep", "dead"}

\* C17 as stated: called when nothing else is in progress,
\* get_job_queue_stats reports a queue_length equal to the number of PENDING
\* records, a total_jobs equal to the number of records, and status_counts
\* that sum to total_jobs.
C17_StatsAgree ==
  Quiescent =>
    LET stats == get_job_queue_stats
        counts == stats.status_counts
    IN /\ stats.queue_length =
            Cardinality({j \in JobIds : store[j].status = PENDING})
       /\ stats.total_jobs = Cardinality({j \in JobIds : Exists(j)})
       /\ counts[PENDING] + counts[RUNNING] + counts[COMPLETED]
            + counts[FAILED] + counts[CANCELLED] = stats.total_jobs

\* C18: only the delete call of cleanup_old_jobs removes a record, and the
\* run goes to that call only for a record that, when read, has status
\* COMPLETED, FAILED or CANCELLED and a completed_at that parses and is
\* older than the cutoff; a record read as PENDING or RUNNING, or with a
\* missing, "None" or newer completed_at, is kept.
C18_DeletesOnlyEligible ==
  [][\A j \in JobIds :
       /\ (Exists(j) /\ ~(\E f \in Fields : store'[j][f] # Missing))
            => swp.pc = "delete" /\ swp.job = j
       /\ (swp.pc = "scan" /\ swp'.pc = "delete" /\ swp'.job = j)
            => /\ store[j].status \in {COMPLETED, FAILED, CANCELLED}
               /\ store[j].status \notin {PENDING, RUNNING}
               /\ store[j].completed_at \notin {Missing, None}
               /\ j \in swp.due /\ j \notin swp.fresh]_vars

\* C18's case: a run has deleted one job's record and kept the other's,
\* which is terminal with a completed_at that is not older than the cutoff.
C18_Witness ==
  /\ swp.pc = "sleep"
  /\ \E j, k \in JobIds :
       /\ sub[j].pc = "returned" /\ ~Exists(j)
       /\ store[k].status = COMPLETED /\ store[k].completed_at = Stamp

\* The step ends a run of cleanup_old_jobs that did not raise.
RunCompletes == swp.pc \in {"scan", "delete"} /\ swp'.pc = "sleep"

\* C19 as stated: when a run of cleanup_old_jobs completes, no record that
\* was terminal with a completed_at older than the cutoff at its start
\* exists.
C19_DueAllDeleted ==
  [][RunCompletes =>
       \A j \in swp.due : \A f \in Fields : store'[j][f] = Missing]_vars

\* C19 as amended: the run deletes every record it reads as terminal with a
\* completed_at older than the cutoff, by its next store call when that call
\* does not raise; when the run completes, a record that was due at its
\* start is gone unless a write made during the run stamped its completed_at
\* again, the dispatcher's RUNNING write replaced its CANCELLED status
\* before it was read, or a later write re-created it without the fields of
\* submit_job.
C19_DueDeletedUnlessRewritten ==
  [][/\ \A j \in JobIds :
          (/\ swp.pc = "scan" /\ events' = events
           /\ j \in swp.keys /\ j \notin swp'.keys /\ Eligible(j))
            => swp'.pc = "delete" /\ swp'.job = j
     /\ (swp.pc = "delete" /\ swp'.pc # "delete" /\ events' = events)
          => \A f \in Fields : store'[swp.job][f] = Missing
     /\ RunCompletes =>
          \A j \in swp.due :
            \/ \A f \in Fields : store'[j][f] = Missing
            \/ j \in swp.fresh
            \/ store'[j].status = RUNNING
            \/ store'[j].core = Missing]_vars

\* C19's case: a run over the records of two jobs has completed and deleted
\* both.
C19_Witness ==
  /\ swp.pc = "sleep"
  /\ \A j \in JobIds : sub[j].pc = "returned" /\ invoked[j] = 1 /\ ~Exists(j)

\* C14: no failure ends the dispatch loop.  A raising store call of the
\* loop or of _process_single_job, a raising handler and a missing handler
\* lead to the FAILED write or to the backoff sleep, a raising FAILED write
\* to the backoff sleep, and the backoff sleep to the top of the loop; and
\* every queued job is taken out of the queue once store calls stop raising.
C14_LoopSurvives ==
  /\ [][/\ (dis' # dis /\ events' # events)
             => \/ dis'.pc = "backoff"
                \/ /\ dis'.pc = "failed"
                   /\ dis.pc \in {"reread", "running", "handler", "completed"}
        /\ (dis.pc \in {"running", "handler"} /\ dis' # dis)
             => dis'.pc \in {"handler", "completed", "failed"}
        /\ (dis.pc = "failed" /\ dis' # dis) => dis'.pc \in {"peek", "backoff"}
        /\ (dis.pc = "backoff" /\ dis' # dis) => dis' = Top]_vars
  /\ \A j \in JobIds : (j \in Members) ~> (j \notin Members)

\* C14's case: the FAILED write for the job of priority 5 raised and left it
\* RUNNING, and the loop has since dispatched and completed the job of
\* priority 1.
C14_Witness ==
  \E j, k \in JobIds :
    /\ sub[k].priority = 5 /\ store[k].status = RUNNING /\ dis.job # k
    /\ sub[j].priority = 1 /\ store[j].status = COMPLETED /\ invoked[j] = 1

\* C11 as stated: when a built-in handler met a failure (a missing,
\* unsupported or unparsable file, a relational-store error, a failed
\* download), the dispatcher's write that ends the job records FAILED with
\* an error message, never COMPLETED.
C11_HandlerFailureFails ==
  [][(/\ dis.pc \in {"completed", "failed"} /\ dis'.pc = "peek"
      /\ hnd.failure # "none")
       => /\ store'[dis.job].status = FAILED
          /\ store'[dis.job].error \notin {None, Missing}]_vars

\* The rows of table_metadata for a pair and the column rows a table owns,
\* after the step.
TablesOf(pair) == {r \in table_metadata' : r.pair = pair}
ColumnsOf(id) == {c \in column_metadata' : c.table_id = id}

\* C20: when process_dataset commits for a pair that an earlier
\* process_dataset call already committed, the store holds exactly one
\* table_metadata row for the pair, the row of the earlier call, and the
\* column rows it owns are exactly the columns of this call, each written by
\* this call.
C20_ReprofileReplaces ==
  [][(/\ hnd.pc = "commit" /\ hnd'.pc # "commit" /\ hnd'.failure = "none"
      /\ \E k \in JobIds : profiled[k].pair = hnd.pair)
       => /\ Cardinality(TablesOf(hnd.pair)) = 1
          /\ TablesOf(hnd.pair) \cap table_metadata = {}
          /\ \A r \in TablesOf(hnd.pair) :
               /\ r.id \in {t.id : t \in table_metadata}
               /\ r.counters = dis.job
               /\ ColumnsOf(r.id) =
                    {[table_id |-> r.id, column_name |-> n, run |-> dis.job] :
                       n \in hnd.cols}]_vars

\* C20's case: both jobs profiled the same pair, the first with columns a
\* and b and the second with b and c, and both are COMPLETED.
C20_Witness ==
  /\ profiled[1] = [pair |-> DefaultPair, cols |-> {"a", "b"}]
  /\ profiled[2] = [pair |-> DefaultPair, cols |-> {"b", "c"}]
  /\ \A j \in JobIds : store[j].status = COMPLETED
  /\ \E r \in table_metadata : r.counters = 2
  /\ {c.column_name : c \in column_metadata} = {"b", "c"}

\* The steps of the session of process_dataset.
InSession == hnd.pc \in {"select", "upsert", "delete", "commit"}

\* C21: a step of the session of one process_dataset call either leaves the
\* committed table_metadata and column_metadata rows as they were, or is the
\* commit that returns success, after which the row of the pair holds the
\* counters of this call and owns exactly the columns of this call; a step
\* that ends the call with an error leaves both as they were.
C21_CommitTogether ==
  [][InSession =>
       \/ /\ table_metadata' = table_metadata
          /\ column_metadata' = column_metadata
       \/ /\ hnd.pc = "commit" /\ hnd'.failure = "none"
          /\ \E r \in table_metadata' :
               /\ r.pair = hnd.pair /\ r.counters = dis.job
               /\ ColumnsOf(r.id) =
                    {[table_id |-> r.id, column_name |-> n,
                      run |-> dis.job] : n \in hnd.cols}]_vars

\* C21's case: the second call for a pair met an error at the commit, after
\* its session had updated the counters and replaced the columns; the
\* committed rows are those of the first call.
C21_Witness ==
  /\ hnd.failure = "SQLAlchemyError"
  /\ hnd.tables # table_metadata /\ hnd.columns # column_metadata
  /\ \E r \in hnd.tables : r.pair = hnd.pair /\ r.counters = 2
  /\ \E r \in table_metadata :
       /\ r.pair = hnd.pair /\ r.counters = 1
       /\ {c \in column_metadata : c.table_id = r.id} # {}
       /\ \A c \in column_metadata : c.table_id = r.id => c.run = 1

\* Every submit_job call has returned its id.
AllReturned == \A j \in JobIds : sub[j].pc = "returned"

\* The entries of job_queue whose member is j.
EntriesOf(j) == {e \in job_queue : e[1] = j}

\* C22 as stated: once every submit_job call has returned, every job has a
\* PENDING record and one entry in job_queue, with its priority as score.
C22_AllPendingQueued ==
  AllReturned =>
    \A j \in JobIds :
      /\ store[j].status = PENDING
      /\ EntriesOf(j) = {<<j, sub[j].priority>>}

\* C22: the hset of a submit_job call writes the record of an id that no
\* record, no queue entry and no other call has, and changes no other
\* record; the zadd of the call that returns finds its record PENDING and
\* unchanged since the hset and its id not queued, and adds the one entry
\* of its id and priority, changing no other entry.
C22_SubmissionsKept ==
  [][\A j \in JobIds :
       /\ (sub[j].pc # "zadd" /\ sub'[j].pc = "zadd")
            => /\ sub[j].pc = "none"
               /\ ~Exists(j) /\ EntriesOf(j) = {}
               /\ store' = hmset(j, NewJob)
               /\ job_queue' = job_queue
       /\ (sub[j].pc = "zadd" /\ sub'[j].pc = "returned")
            => /\ store = hmset(j, NewJob)
               /\ EntriesOf(j) = {}
               /\ job_queue' = job_queue \cup {<<j, sub[j].priority>>}
               /\ store' = store
               /\ sub'[j].type = sub[j].type
               /\ sub'[j].priority = sub[j].priority]_vars

\* C22's case: the second call returned and the dispatcher started its job
\* while the first call, which wrote its record earlier, has yet to add
\* its id to the queue.
C22_Witness ==
  /\ sub[1].pc = "zadd" /\ sub[2].pc = "returned"
  /\ store = hmset(1, NewJob) /\ EntriesOf(1) = {}
  /\ store[2].status = RUNNING /\ dis.job = 2

\* C23: a job whose record holds a terminal status has no temporary dataset
\* file left.
C23_TempFilesRemoved ==
  \A j \in JobIds : store[j].status \in Terminal => ~TempFile(j)

\* The column handed to _analyze_column is textual: its dtype is object and
\* every cell is a text or null.
Textual ==
  profile.dtype = "object" /\ Unhashable \notin Range(profile.series)

\* The non-null cells _infer_column_type samples.
Sampled == Range(dropna(profile.series))

\* The type the tests decide, applied in the order datetime, numeric,
\* boolean vocabulary: the first test the sample passes, else STRING.
FirstPassingTest ==
  IF to_datetime(dropna(profile.series), profile.mixed) THEN "datetime"
  ELSE IF \A v \in Sampled : v \in {"1", "2", "3", "2.0", "2023"}
    THEN "integer"
  ELSE IF \A v \in Sampled : v \in {"1", "2", "3", "1.5", "2.0", "2023"}
    THEN "float"
  ELSE IF \A v \in Sampled : v \in {"true", "True", "false", "yes", "1"}
    THEN "boolean"
  ELSE "string"

\* C24: for a textual column _analyze_column reports the type of the first
\* test, in the order datetime, numeric, boolean vocabulary, that every
\* sampled value passes, INTEGER for integral numbers and FLOAT otherwise,
\* and STRING when none passes; so INTEGER for 1, 2, 3, FLOAT for 1.5, 2.0,
\* BOOLEAN for true, false, yes, DATETIME for 2023-01-01, 2023-01-02 and
\* STRING for abc, def.
C24_InferenceOrder ==
  (profile.pc = "returned" /\ Textual) =>
    /\ profile.column.column_type = FirstPassingTest
    /\ profile.series = <<"1", "2", "3">>
         => profile.column.column_type = "integer"
    /\ profile.series = <<"1.5", "2.0">>
         => profile.column.column_type = "float"
    /\ profile.series = <<"true", "false", "yes">>
         => profile.column.column_type = "boolean"
    /\ profile.series = <<"2023-01-01", "2023-01-02">>
         => profile.column.column_type = "datetime"
    /\ profile.series = <<"abc", "def">>
         => profile.column.column_type = "string"

\* C24's case: a column of years, which pass the datetime test and the
\* numeric test, is typed by the first of them.
C24_Witness ==
  /\ profile.pc = "returned"
  /\ profile.series = <<"2023", "2023">>
  /\ profile.column.column_type = "datetime"

\* A column of at least one row whose every cell is null.
AllNull ==
  /\ profile.series # <<>>
  /\ \A v \in Range(profile.series) : v = Null

\* C25: for a column whose cells are all null, whatever its dtype,
\* _analyze_column reports is_nullable true, null_count equal to the number
\* of rows, and no min_value, max_value or avg_value.
C25_AllNullColumn ==
  (profile.pc = "returned" /\ AllNull) =>
    /\ profile.column.is_nullable
    /\ profile.column.null_count = Len(profile.series)
    /\ profile.column.min_value = None
    /\ profile.column.max_value = None
    /\ profile.column.avg_value = None

\* C28: _analyze_column never ends with an exception of _infer_column_type,
\* and a textual column none of whose sampled values is positively
\* identified by the datetime, numeric or boolean-vocabulary test, an empty
\* sample included, is typed STRING.
C28_StringFallback ==
  /\ profile.pc # "raised"
  /\ (/\ profile.pc = "returned" /\ Textual
      /\ \A v \in Sampled :
           /\ DateFormat(v) = "none"
           /\ v \notin DOMAIN Numeric
           /\ lower(v) \notin BooleanTokens)
       => profile.column.column_type = "string"

\* C26: when the re-read of the dequeued id answers and finds no record, or
\* a record whose status is not PENDING, the dispatcher invokes no handler
\* and writes nothing: every record and the queue are left as they were,
\* and the dispatcher is back at the top of its loop, without a sleep.
C26_SkipWritesNothing ==
  [][(/\ dis.pc = "reread" /\ dis' # dis /\ events' = events
      /\ \/ ~Exists(dis.job)
         \/ store[dis.job].status \in JobStatus \ {PENDING})
       => /\ dis' = Top
          /\ store' = store
          /\ job_queue' = job_queue
          /\ invoked' = invoked]_vars

\* C26's case: cancel_job wrote CANCELLED on a job the dispatcher had
\* dequeued and not yet re-read; no store call raised, and the dispatcher
\* is back at the top of its loop, the handler not invoked.
C26_Witness ==
  /\ dis = Top /\ events = 1
  /\ can.pc = "zrem"
  /\ store[can.job].status = CANCELLED
  /\ EntriesOf(can.job) = {}
  /\ invoked[can.job] = 0

C29_RegistryAdditive ==
  [][/\ \A t \in Types, h \in Callables :
          register_handler(t, h)
            => /\ handlers_get(t)' = h
               /\ \A u \in Types \ {t} : handlers_get(u)' = handlers_get(u)
     /\ (/\ dis.pc = "running" /\ dis' # dis /\ events' = events
         /\ handlers_get(sub[dis.job].type) = NotFound)
          => /\ dis' = Except(dis.job, NoHandler)
             /\ invoked' = invoked]_vars

\* C29's case: another handler was registered for process_dataset and took
\* the place of the one registered at import, the handler of
\* process_dataset_url is the one registered at import, and a job of a type
\* without a handler was recorded FAILED without an invocation.
C29_Witness ==
  /\ registry["process_dataset"] = "other_handler"
  /\ registry["process_dataset_url"] = "process_dataset_url_handler"
  /\ registry["unregistered"] = NotFound
  /\ \E j \in JobIds :
       /\ sub[j].type = "unregistered"
       /\ store[j].status = FAILED /\ invoked[j] = 0

\* C30: the handler of a job is invoked at most once.
C30_InvokedAtMostOnce == \A j \in JobIds : invoked[j] <= 1

\* C30's case: every job was dispatched and its handler invoked, one of
\* them was cancelled while RUNNING, and the dispatcher, with nothing left
\* in the queue, is back at the top of its loop.
C30_Witness ==
  /\ AllReturned /\ job_queue = {} /\ dis.pc = "peek"
  /\ \A j \in JobIds : invoked[j] = 1 /\ store[j].status \in Terminal
  /\ \E j \in JobIds : cancelled[j] = RUNNING

\* The dispatcher holds job j: it has dequeued it and has yet to write
\* RUNNING, or to write FAILED for an exception met on the way.
HeldByDispatcher(j) ==
  dis.job = j /\ dis.pc \in {"reread", "running", "failed"}

\* C31: a job whose submit_job call returned and whose status is PENDING is
\* in the queue or held by the dispatcher.
C31_PendingNotLost ==
  \A j \in JobIds :
    (sub[j].pc = "returned" /\ store[j].status = PENDING)
      => j \in Members \/ HeldByDispatcher(j)

\* The dispatcher is at the top of its loop: about to inspect the queue, or
\* in one of its sleeps.
AtTop == dis.pc \in {"peek", "sleep", "backoff"}

\* C32: when the dispatcher is at the top of its loop no record has status
\* RUNNING.
C32_NoneLeftRunning ==
  AtTop => \A j \in JobIds : store[j].status # RUNNING

\* No submit_job call is between its hset and its zadd and no cancel_job
\* call is under way.
NoCallPartWay ==
  /\ can.pc = "idle"
  /\ \A j \in JobIds : sub[j].pc # "zadd"

\* C33: when no submit_job or cancel_job call is part-way through, every id
\* in the queue has a record, whose status is PENDING.
C33_QueuedArePending ==
  NoCallPartWay =>
    \A j \in Members : Exists(j) /\ store[j].status = PENDING

\* The fields submit_job writes that no later write removes or omits.
SubmittedFields == {"status", "created_at"} \cap Fields

\* C34: every record was created by submit_job and carries the fields
\* submit_job wrote; no later write creates a record for an id without one.
C34_RecordsComplete ==
  \A j \in JobIds :
    Exists(j) =>
      /\ sub[j].pc # "none"
      /\ \A f \in SubmittedFields : store[j][f] # Missing

\* The handler of job j is executing: the dispatcher awaits it.
HandlerExecuting(j) == dis.pc = "handler" /\ dis.job = j

\* C35: no step deletes the record of a job whose handler is executing.
C35_RunningRecordKept ==
  [][\A j \in JobIds :
       (HandlerExecuting(j) /\ Exists(j)) => store'[j] # NoRecord]_vars

\* The rows of table_metadata the step adds, removes or changes.
TouchedTables ==
  (table_metadata' \ table_metadata) \cup (table_metadata \ table_metadata')

\* C36: the commit of a built-in handler's process_dataset call touches the
\* table_metadata row of the job payload's (schema_name, table_name) pair
\* and no other row, and a job the dispatcher marks COMPLETED after a
\* handler run that met no failure has profiled the pair of its payload.
C36_PayloadPairPersisted ==
  [][/\ (hnd.pc = "commit" /\ hnd'.pc # "commit" /\ hnd'.failure = "none")
          => /\ TouchedTables # {}
             /\ \A r \in TouchedTables : r.pair = hnd.payload
     /\ (/\ dis.pc = "completed" /\ dis'.pc = "peek"
         /\ store'[dis.job].status = COMPLETED /\ hnd.failure = "none")
          => profiled[dis.job].pair = hnd.payload]_vars

====
